---- MODULE Spec2Model ----
(***************************************************************************)
(* Model of the non-transitive dice game (src/dice_game.js; the variant    *)
(* src/unnamed/part_000 differs only in the sampler it calls and in the    *)
(* shape of the re-roll loop).                                             *)
(*                                                                         *)
(* Strings are sequences of one-character strings.  JavaScript numbers     *)
(* that may be NaN or undefined are records [t, v].  Arrays are 1-based    *)
(* sequences, so the JavaScript index i is the position i + 1.             *)
(***************************************************************************)
EXTENDS Integers, Sequences, FiniteSets, TLC

VARIABLES
  args,          \* process.argv.slice(2)
  dice,          \* the validated dice, each a sequence of 6 integers
  argIdx,        \* position of the for-of loop over args
  exitCode,      \* -1 while running, else the code given to process.exit / 0 at the end
  pc,            \* position of the program
  out,           \* console lines printed by the step sequence in progress
  max, label, site,              \* fairRandom's parameters and its caller
  key, compNum, hmac,            \* fairRandom's commitment
  input, userNum, result,        \* fairRandom's other locals
  ret,                           \* value a returned fairRandom call resolved to
  firstMove, userStarts,         \* main's locals
  userDieInput,                  \* the line typed at "Select your die"
  userDieIndex, compDieIndex, userRoll, compRoll,
  userFace, compFace,
  table,         \* rows last printed by showProbabilities
  calls, keyDraws, numDraws,     \* how often fairRandom, randomBytes(32), secureRandomInt ran
  probe          \* arguments and result of a pure function applied on its own

vars == <<args, dice, argIdx, exitCode, pc, out, max, label, site, key, compNum,
          hmac, input, userNum, result, ret, firstMove, userStarts, userDieInput,
          userDieIndex, compDieIndex, userRoll, compRoll, userFace, compFace, table, calls,
          keyDraws, numDraws, probe>>

\* ------------------------------------------------------------------ bounds
\* Invalid lines the user may type within one exchange.
MaxInvalid == 1
\* fairRandom calls in one run.
MaxCalls == 4
\* Bytes of a key (the program draws 32).
KeyBytes == 1
\* Width in bits of the sampler's draw (the program draws 32).
DrawBits == 4
\* Largest modulus of the stand-alone Combine applications.
MaxMod == 6

\* ------------------------------------------------------- program constants
DICE_FACES == 6
MIN_DICE == 3
RADIX == 10

\* ------------------------------------------------------------ JS values
Undefined == [t |-> "undefined", v |-> 0]
NaN == [t |-> "NaN", v |-> 0]
Num(n) == [t |-> "num", v |-> n]
isNaN(x) == x.t # "num"

\* ------------------------------------------------------------ strings
Digits == <<"0", "1", "2", "3", "4", "5", "6", "7", "8", "9">>
HexDigits == <<"0", "1", "2", "3", "4", "5", "6", "7", "8", "9",
               "a", "b", "c", "d", "e", "f">>
IsDigit(c) == \E i \in 1..RADIX : Digits[i] = c
DigitVal(c) == (CHOOSE i \in 1..RADIX : Digits[i] = c) - 1
\* WhiteSpace and LineTerminator of ECMAScript, which trim() and parseInt skip:
\* blank, TAB, LF, CR, FF, and by name the characters a string here cannot
\* hold: VT, NBSP, BOM (U+FEFF), LS (U+2028), PS (U+2029) and the other space
\* separators of Unicode (Zs)
WhiteSpace ==
  {" ", "\t", "\n", "\r", "\f", "<VT>", "<NBSP>", "<BOM>", "<LS>", "<PS>", "<Zs>"}
IsSpace(c) == c \in WhiteSpace

RECURSIVE TrimStart(_)
TrimStart(s) ==
  IF s # <<>> /\ IsSpace(Head(s)) THEN TrimStart(Tail(s)) ELSE s

RECURSIVE TrimEnd(_)
TrimEnd(s) ==
  IF s # <<>> /\ IsSpace(s[Len(s)]) THEN TrimEnd(SubSeq(s, 1, Len(s) - 1)) ELSE s

\* String.prototype.trim
Trim(s) == TrimEnd(TrimStart(s))

RECURSIVE DigitPrefix(_)
DigitPrefix(s) ==
  IF s # <<>> /\ IsDigit(Head(s)) THEN <<Head(s)>> \o DigitPrefix(Tail(s)) ELSE <<>>

RECURSIVE DigitsValue(_)
DigitsValue(ds) ==
  IF ds = <<>> THEN 0
  ELSE RADIX * DigitsValue(SubSeq(ds, 1, Len(ds) - 1)) + DigitVal(ds[Len(ds)])

\* parseInt(s, 10): leading white space is skipped, one sign is taken, then the
\* longest run of decimal digits; what follows the digits is ignored, and no
\* digit at all gives NaN.
parseInt(s) ==
  LET t == TrimStart(s)
      signed == t # <<>> /\ Head(t) \in {"+", "-"}
      neg == t # <<>> /\ Head(t) = "-"
      ds == DigitPrefix(IF signed THEN Tail(t) ELSE t)
  IN IF ds = <<>> THEN NaN
     ELSE Num(IF neg THEN 0 - DigitsValue(ds) ELSE DigitsValue(ds))

RECURSIVE NatToString(_)
NatToString(n) ==
  IF n < RADIX THEN <<Digits[n + 1]>>
  ELSE NatToString(n \div RADIX) \o <<Digits[(n % RADIX) + 1]>>

\* Number.prototype.toString() of an integer
toString(n) == IF n < 0 THEN <<"-">> \o NatToString(0 - n) ELSE NatToString(n)

RECURSIVE SplitFrom(_, _, _)
SplitFrom(s, cur, acc) ==
  IF s = <<>> THEN Append(acc, cur)
  ELSE IF Head(s) = "," THEN SplitFrom(Tail(s), <<>>, Append(acc, cur))
  ELSE SplitFrom(Tail(s), Append(cur, Head(s)), acc)

\* arg.split(',')
split(s) == SplitFrom(s, <<>>, <<>>)

\* arg.split(',').map(x => parseInt(x.trim(), 10))
ParseFaces(arg) ==
  LET toks == split(arg)
  IN [i \in 1..Len(toks) |-> parseInt(Trim(toks[i]))]

BadFaces_anyLength(faces) == \E i \in 1..Len(faces) : isNaN(faces[i])
\* faces.length !== DICE_FACES || faces.some(isNaN)
BadFaces(faces) ==
  Len(faces) # DICE_FACES \/ \E i \in 1..Len(faces) : isNaN(faces[i])

\* ------------------------------------------------------------ inputs
RECURSIVE JoinTokens(_)
JoinTokens(toks) ==
  IF Len(toks) = 0 THEN <<>>
  ELSE IF Len(toks) = 1 THEN toks[1]
  ELSE toks[1] \o <<",">> \o JoinTokens(Tail(toks))

D(c) == <<c>>
ClassicA == JoinTokens(<<D("2"), D("2"), D("4"), D("4"), D("9"), D("9")>>)
ClassicB == JoinTokens(<<D("1"), D("1"), D("6"), D("6"), D("8"), D("8")>>)
ClassicC == JoinTokens(<<D("3"), D("3"), D("5"), D("5"), D("7"), D("7")>>)
FiveFaces == JoinTokens(<<D("2"), D("2"), D("4"), D("4"), D("9")>>)
SevenFaces == JoinTokens(<<D("2"), D("2"), D("4"), D("4"), D("9"), D("9"), D("9")>>)
WordFace == JoinTokens(<<D("2"), D("x"), D("4"), D("4"), D("9"), D("9")>>)
EmptyFace == JoinTokens(<<D("2"), <<>>, D("4"), D("4"), D("9"), D("9")>>)
FractionFace == JoinTokens(<<<<"2", ".", "5">>, D("2"), D("4"), D("4"), D("9"), D("9")>>)
SuffixFace == JoinTokens(<<D("3"), D("3"), D("5"), D("5"), D("7"), <<"4", "a">>>>)
SignedFaces == JoinTokens(<<<<"\n", "-", "3">>, <<"<NBSP>", "0">>, <<"1", "0", "0">>,
                            <<" ", "4">>, <<"+", "9">>, <<"\r", "9", " ">>>>)

\* The command lines tried.
ArgLists ==
  { <<ClassicA, ClassicB, ClassicC>>,
    <<>>,
    <<ClassicA, ClassicB>>,
    <<ClassicA, FiveFaces, ClassicC>>,
    <<ClassicA, ClassicB, SevenFaces>>,
    <<WordFace, ClassicB, ClassicC>>,
    <<ClassicA, EmptyFace, ClassicC>>,
    <<SignedFaces, FractionFace, SuffixFace, ClassicB>>,
    <<ClassicA, ClassicB, <<>>>> }

\* The lines typed at the "Enter your number" prompt.
NumberLines ==
  { <<"a", "b", "c">>, <<>>, <<"1", ".", "5">>, <<"2", "x">>, <<"-", "1">>,
    <<"0">>, <<"1">>, <<"2">>, <<"3">>, <<"\f", "4", " ">>, <<"5">>, <<"6">> }

\* The lines typed at the menu prompt.
MenuLines ==
  { <<"0">>, <<"1">>, <<"2">>, <<" ", "2", " ">>, <<"9">>, <<>>,
    <<"\f", "0">>, <<"<VT>", "1">>, <<"2", "\r">> }

\* The lines typed at the "Select your die" prompt.
DieLines ==
  { <<"0">>, <<"1">>, <<"2">>, <<"\f", "3", " ">>, <<"4">>, <<"5">>, <<"x">>,
    <<"-", "1">>, <<"1", ".", "5">> }

\* ------------------------------------------------------------ crypto
ByteVals == {10, 255}
\* crypto.randomBytes(KeyBytes): every byte string of that length
Keys == [1..KeyBytes -> ByteVals]

\* key.toString('hex')
toHex(k) ==
  LET n == Len(k)
  IN [i \in 1..(2 * n) |->
        IF i % 2 = 1 THEN HexDigits[(k[(i + 1) \div 2] \div 16) + 1]
        ELSE HexDigits[(k[i \div 2] % 16) + 1]]

\* HMAC-SHA3-256 as an ideal keyed hash: the digest stands for the pair it was
\* computed from, so two digests are equal exactly when key and message are.
hmacSha3(k, msg) == <<"hmac-sha3-256", k, msg>>

\* buf.readUInt32BE(0) ranges over 0 .. 0xFFFFFFFF, here over 0 .. 2^DrawBits - 1
DrawMax == (2 ^ DrawBits) - 1

AcceptedDraws_all(m) == { num \in 0..DrawMax : m # 0 }
\* the draws the loop of secureRandomInt accepts
AcceptedDraws(m) ==
  { num \in 0..DrawMax : m # 0 /\ num < DrawMax - (DrawMax % m) }

\* the values secureRandomInt(m) can return
secureRandomInt(m) == { num % m : num \in AcceptedDraws(m) }

Combine_nomod(c, u, m) == c + u
Combine_product(c, u, m) == (c * u) % m
\* const result = (compNum + userNum) % max
Combine(c, u, m) == (c + u) % m

\* !isNaN(userNum) && userNum >= 0 && userNum < max
ValidNumber(x, m) == ~isNaN(x) /\ x.v >= 0 /\ x.v < m

\* ------------------------------------------------------------ help table
WinCount_orEqual(d1, d2) ==
  Cardinality({pq \in (1..Len(d1)) \X (1..Len(d2)) : d1[pq[1]] >= d2[pq[2]]})
RECURSIVE WinCountFrom(_, _, _, _)
WinCountFrom(d1, d2, p, q) ==
  IF p > Len(d1) THEN 0
  ELSE IF q > Len(d2) THEN WinCountFrom(d1, d2, p + 1, 1)
  ELSE (IF d1[p] > d2[q] THEN 1 ELSE 0) + WinCountFrom(d1, d2, p, q + 1)

\* the two loops over d1 and d2 that count a > b
WinCount(d1, d2) == WinCountFrom(d1, d2, 1, 1)

\* ((winCount / total) * 100).toFixed(1) + '%'
PercentString(winCount) ==
  LET total == DICE_FACES * DICE_FACES
      tenths == (2000 * winCount + total) \div (2 * total)
  IN toString(tenths \div 10) \o <<".", Digits[(tenths % 10) + 1], "%">>

compareDice_half(d1, d2) ==
  LET half == (Len(d1) * Len(d2)) \div 2
  IN IF WinCount(d1, d2) > half THEN 1
     ELSE IF WinCount(d1, d2) < half THEN 0 - 1 ELSE 0

RECURSIVE CompareFrom(_, _, _, _, _, _)
CompareFrom(d1, d2, p, q, win, lose) ==
  IF p > Len(d1)
  THEN (IF win > lose THEN 1 ELSE IF lose > win THEN 0 - 1 ELSE 0)
  ELSE IF q > Len(d2) THEN CompareFrom(d1, d2, p + 1, 1, win, lose)
  ELSE IF d1[p] > d2[q] THEN CompareFrom(d1, d2, p, q + 1, win + 1, lose)
  ELSE IF d1[p] < d2[q] THEN CompareFrom(d1, d2, p, q + 1, win, lose + 1)
  ELSE CompareFrom(d1, d2, p, q + 1, win, lose)

\* compareDice(d1, d2): win and lose counted over all pairs, then compared
compareDice(d1, d2) == CompareFrom(d1, d2, 1, 1, 0, 0)

\* rows of showProbabilities: the die number, then one cell per die
ProbabilityRows(d) ==
  [i \in 1..Len(d) |->
     <<toString(i - 1)>> \o
     [j \in 1..Len(d) |->
        IF i = j THEN <<"-">> ELSE PercentString(WinCount(d[i], d[j]))]]

\* ------------------------------------------------------------ initial state
NoNum == 0 - 1
Init ==
  /\ args \in ArgLists
  /\ dice = <<>>
  /\ argIdx = 1
  /\ exitCode = NoNum
  /\ pc = "start"
  /\ out = <<>>
  /\ max = 0 /\ label = "" /\ site = ""
  /\ key = <<>> /\ compNum = NoNum /\ hmac = <<>>
  /\ input = <<>> /\ userNum = Undefined /\ result = NoNum
  /\ ret = NoNum
  /\ firstMove = NoNum /\ userStarts = FALSE
  /\ userDieInput = <<>>
  /\ userDieIndex = NoNum /\ compDieIndex = NoNum
  /\ userRoll = NoNum /\ compRoll = NoNum
  /\ userFace = NoNum /\ compFace = NoNum
  /\ table = <<>>
  /\ calls = 0 /\ keyDraws = 0 /\ numDraws = 0
  /\ probe = [fn |-> "none"]

exchangeVars == <<max, label, site, key, compNum, hmac, input, userNum, result>>
roundVars == <<userDieInput, userDieIndex, compDieIndex, userRoll, compRoll, userFace,
               compFace>>
countVars == <<calls, keyDraws, numDraws>>
startupVars == <<args, dice, argIdx, exitCode>>

\* ------------------------------------------------------------ startup
\* if (args.length < 3) { ...; process.exit(1) }
CheckArgs ==
  /\ pc = "start"
  /\ IF Len(args) < MIN_DICE
     THEN /\ out' = <<<<"error", "You must provide at least 3 dice.">>>>
          /\ exitCode' = 1
          /\ pc' = "exited"
     ELSE /\ pc' = "parse"
          /\ UNCHANGED <<out, exitCode>>
  /\ UNCHANGED <<args, dice, argIdx, exchangeVars, ret, firstMove, userStarts,
                 roundVars, table, countVars, probe>>

\* one iteration of: for (const arg of args) { faces = ...; if (...) exit; dice.push(faces) }
ParseDie ==
  /\ pc = "parse"
  /\ argIdx <= Len(args)
  /\ LET faces == ParseFaces(args[argIdx])
     IN IF BadFaces(faces)
        THEN /\ out' = <<<<"error", "Each dice must have exactly 6 integers, comma separated.">>>>
             /\ exitCode' = 1
             /\ pc' = "exited"
             /\ UNCHANGED <<dice, argIdx>>
        ELSE /\ dice' = Append(dice, [i \in 1..Len(faces) |-> faces[i].v])
             /\ argIdx' = argIdx + 1
             /\ UNCHANGED <<out, exitCode, pc>>
  /\ UNCHANGED <<args, exchangeVars, ret, firstMove, userStarts, roundVars, table,
                 countVars, probe>>

\* ------------------------------------------------------------ fairRandom
\* a call fairRandom(m, l) whose result goes to the code at s; lines are what
\* the caller printed just before
\* the run is counted (calls, keyDraws, numDraws) and cut after MaxCalls
\* exchanges, except where the unbounded while (true) loops are followed
Counting == probe.fn # "live"

Call(m, l, s, lines) ==
  /\ Counting => calls < MaxCalls
  /\ calls' = IF Counting THEN calls + 1 ELSE calls
  /\ max' = m /\ label' = l /\ site' = s
  /\ out' = lines
  /\ pc' = "fr_commit"
  /\ UNCHANGED <<key, compNum, hmac, input, userNum, result, keyDraws, numDraws>>

\* key = crypto.randomBytes(32); compNum = secureRandomInt(max); hmac = hmacSha3(...)
FR_Commit ==
  /\ pc = "fr_commit"
  /\ \E k \in Keys :
       /\ key' = k
       /\ IF secureRandomInt(max) = {}
          THEN \* no draw is ever accepted: secureRandomInt does not return
               /\ pc' = "sr_loop"
               /\ UNCHANGED <<compNum, hmac>>
          ELSE \E n \in secureRandomInt(max) :
                 /\ compNum' = n
                 /\ hmac' = hmacSha3(k, toString(n))
                 /\ pc' = "fr_disclose"
  /\ keyDraws' = IF Counting THEN keyDraws + 1 ELSE keyDraws
  /\ numDraws' = IF Counting THEN numDraws + 1 ELSE numDraws
  /\ UNCHANGED <<startupVars, out, max, label, site, input, userNum, result, ret,
                 firstMove, userStarts, roundVars, table, calls, probe>>

FR_Disclose_leak ==
  /\ pc = "fr_disclose"
  /\ out' = out \o << <<"hmac", label, hmac>>, <<"secret", toString(compNum)>> >>
  /\ userNum' = Undefined
  /\ pc' = "fr_ask"
  /\ UNCHANGED <<startupVars, max, label, site, key, compNum, hmac, input, result,
                 ret, firstMove, userStarts, roundVars, table, countVars, probe>>
\* console.log(`[label] Computer committed number HMAC: hmac`); let userNum;
FR_Disclose ==
  /\ pc = "fr_disclose"
  /\ out' = Append(out, <<"hmac", label, hmac>>)
  /\ userNum' = Undefined
  /\ pc' = "fr_ask"
  /\ UNCHANGED <<startupVars, max, label, site, key, compNum, hmac, input, result,
                 ret, firstMove, userStarts, roundVars, table, countVars, probe>>

\* ask(`Enter your number (0-max-1): `) writes the question and waits
FR_Ask ==
  /\ pc = "fr_ask"
  /\ out' = Append(out, <<"ask", toString(max - 1)>>)
  /\ pc' = "fr_wait"
  /\ UNCHANGED <<startupVars, exchangeVars, ret, firstMove, userStarts, roundVars,
                 table, countVars, probe>>

InvalidLines(o) == Cardinality({i \in 1..Len(o) : o[i][1] = "invalid"})

FR_Input_recommit ==
  /\ pc = "fr_wait"
  /\ \E line \in NumberLines :
       LET n == parseInt(Trim(line))
       IN /\ userNum' = n
          /\ IF ValidNumber(n, max)
             THEN /\ input' = line
                  /\ pc' = "fr_combine"
                  /\ out' = out
             ELSE /\ Cardinality({i \in 1..Len(out) : out[i][1] = "invalid"}) < MaxInvalid
                  /\ input' = <<>>
                  /\ out' = Append(out, <<"invalid", toString(max - 1)>>)
                  /\ pc' = "fr_commit"
  /\ UNCHANGED <<startupVars, max, label, site, key, compNum, hmac, result, ret,
                 firstMove, userStarts, roundVars, table, countVars, probe>>
\* a line arrives: userNum = parseInt(input.trim(), 10); break if it is valid,
\* else print the complaint and loop (input is a const of the loop body, so a
\* rejected line is gone when the body ends)
FR_Input ==
  /\ pc = "fr_wait"
  /\ \E line \in NumberLines :
       LET n == parseInt(Trim(line))
       IN /\ userNum' = n
          /\ IF ValidNumber(n, max)
             THEN /\ input' = line
                  /\ pc' = "fr_combine"
                  /\ out' = out
             ELSE /\ InvalidLines(out) < MaxInvalid
                  /\ input' = <<>>
                  /\ out' = Append(out, <<"invalid", toString(max - 1)>>)
                  /\ pc' = "fr_ask"
  /\ UNCHANGED <<startupVars, max, label, site, key, compNum, hmac, result, ret,
                 firstMove, userStarts, roundVars, table, countVars, probe>>

\* const result = (compNum + userNum) % max
FR_Combine ==
  /\ pc = "fr_combine"
  /\ result' = Combine(compNum, userNum.v, max)
  /\ pc' = "fr_reveal"
  /\ UNCHANGED <<startupVars, out, max, label, site, key, compNum, hmac, input,
                 userNum, ret, firstMove, userStarts, roundVars, table, countVars,
                 probe>>

RevealLines_result ==
  << <<"secret", toString(result)>>,
     <<"key", toHex(key)>>,
     <<"entered", toString(userNum.v)>>,
     <<"result", toString(max), toString(result)>> >>
\* the four console.log lines that reveal the secret and the key
RevealLines ==
  << <<"secret", toString(compNum)>>,
     <<"key", toHex(key)>>,
     <<"entered", toString(userNum.v)>>,
     <<"result", toString(max), toString(result)>> >>

FR_Reveal ==
  /\ pc = "fr_reveal"
  /\ out' = out \o RevealLines
  /\ pc' = "fr_return"
  /\ UNCHANGED <<startupVars, exchangeVars, ret, firstMove, userStarts, roundVars,
                 table, countVars, probe>>

\* return result; the locals of the call are gone
FR_Return ==
  /\ pc = "fr_return"
  /\ ret' = result
  /\ pc' = site
  /\ out' = <<>>
  /\ max' = 0 /\ label' = "" /\ site' = ""
  /\ key' = <<>> /\ compNum' = NoNum /\ hmac' = <<>>
  /\ input' = <<>> /\ userNum' = Undefined /\ result' = NoNum
  /\ UNCHANGED <<startupVars, firstMove, userStarts, roundVars, table, countVars,
                 probe>>

\* ------------------------------------------------------------ main
\* the loop over args is done; main() prints the dice and calls
\* fairRandom(2, 'First move')
MainStart ==
  /\ pc = "parse"
  /\ argIdx > Len(args)
  /\ Call(2, "First move", "ret_first", <<<<"dice", dice>>>>)
  /\ UNCHANGED <<startupVars, ret, firstMove, userStarts, roundVars, table, probe>>

\* const firstMove = <result>; const userStarts = firstMove === 0; console.log(...)
AfterFirstMove ==
  /\ pc = "ret_first"
  /\ firstMove' = ret
  /\ userStarts' = (ret = 0)
  /\ out' = <<<<"starts", IF ret = 0 THEN "You start first." ELSE "Computer starts first.">>>>
  /\ ret' = NoNum
  /\ pc' = "menu"
  /\ UNCHANGED <<startupVars, exchangeVars, roundVars, table, countVars, probe>>

\* if (choice.trim() === '0') break; rl.close(); console.log("Game ended.")
MenuExit ==
  /\ pc = "menu"
  /\ \E line \in MenuLines : Trim(line) = <<"0">>
  /\ out' = <<<<"ended", "Game ended.">>>>
  /\ exitCode' = 0
  /\ pc' = "ended"
  /\ table' = <<>>
  /\ UNCHANGED <<args, dice, argIdx, exchangeVars, ret, firstMove, userStarts,
                 roundVars, countVars, probe>>

\* if (choice.trim() === '1') { showProbabilities(); continue; }
MenuHelp ==
  /\ pc = "menu"
  /\ \E line \in MenuLines : Trim(line) = <<"1">>
  /\ table' = ProbabilityRows(dice)
  /\ out' = <<>>
  /\ UNCHANGED <<startupVars, pc, exchangeVars, ret, firstMove, userStarts,
                 roundVars, countVars, probe>>

MenuPlay_userStartsOnly ==
  /\ pc = "menu"
  /\ userStarts
  /\ \E line \in MenuLines : Trim(line) = <<"2">>
  /\ out' = <<<<"choose", toString(Len(dice))>>>>
  /\ pc' = "select"
  /\ table' = <<>>
  /\ UNCHANGED <<startupVars, exchangeVars, ret, firstMove, userStarts, roundVars,
                 countVars, probe>>
\* if (choice.trim() === '2') { print the dice; ask(`Select your die ...`)
MenuPlay ==
  /\ pc = "menu"
  /\ \E line \in MenuLines : Trim(line) = <<"2">>
  /\ out' = <<<<"choose", toString(Len(dice))>>>>
  /\ pc' = "select"
  /\ table' = <<>>
  /\ UNCHANGED <<startupVars, exchangeVars, ret, firstMove, userStarts, roundVars,
                 countVars, probe>>

\* console.log("Unknown option. Try again.")
MenuUnknown ==
  /\ pc = "menu"
  /\ \E line \in MenuLines : Trim(line) \notin {<<"0">>, <<"1">>, <<"2">>}
  /\ out' = <<<<"unknown", "Unknown option. Try again.">>>>
  /\ table' = <<>>
  /\ UNCHANGED <<startupVars, pc, exchangeVars, ret, firstMove, userStarts,
                 roundVars, countVars, probe>>

\* isNaN(userDieIndex) || userDieIndex < 0 || userDieIndex > dice.length
BadSelection(x) == isNaN(x) \/ x.v < 0 \/ x.v > Len(dice)

\* "Invalid die selection."; continue
SelectInvalid ==
  /\ pc = "select"
  /\ \E line \in DieLines : BadSelection(parseInt(Trim(line)))
  /\ out' = <<<<"invalid-die", "Invalid die selection.">>>>
  /\ pc' = "menu"
  /\ UNCHANGED <<startupVars, exchangeVars, ret, firstMove, userStarts, roundVars,
                 table, countVars, probe>>

\* if (userDieIndex === dice.length) { "Exiting to main menu."; continue }
SelectExit ==
  /\ pc = "select"
  /\ \E line \in DieLines :
       LET x == parseInt(Trim(line)) IN ~BadSelection(x) /\ x.v = Len(dice)
  /\ out' = <<<<"cancel", "Exiting to main menu.">>>>
  /\ pc' = "menu"
  /\ UNCHANGED <<startupVars, exchangeVars, ret, firstMove, userStarts, roundVars,
                 table, countVars, probe>>

SelectDie_offByOne ==
  /\ pc = "select"
  /\ \E line \in DieLines :
       LET x == parseInt(Trim(line))
       IN /\ ~(isNaN(x) \/ x.v < 0 \/ x.v > Len(dice))
          /\ userDieInput' = line
          /\ userDieIndex' = x.v
  /\ calls < MaxCalls
  /\ calls' = calls + 1
  /\ max' = Len(dice) /\ label' = "Computer die choice" /\ site' = "ret_die"
  /\ out' = <<>>
  /\ pc' = "fr_commit"
  /\ UNCHANGED <<startupVars, key, compNum, hmac, input, userNum, result, keyDraws,
                 numDraws, ret, firstMove, userStarts, compDieIndex, userRoll,
                 compRoll, userFace, compFace, table, probe>>
\* let compDieIndex = await fairRandom(dice.length, 'Computer die choice')
SelectDie ==
  /\ pc = "select"
  /\ \E line \in DieLines :
       LET x == parseInt(Trim(line))
       IN /\ ~BadSelection(x)
          /\ x.v # Len(dice)
          /\ userDieInput' = line
          /\ userDieIndex' = x.v
  /\ Call(Len(dice), "Computer die choice", "ret_die", <<>>)
  /\ UNCHANGED <<startupVars, ret, firstMove, userStarts, compDieIndex, userRoll,
                 compRoll, userFace, compFace, table, probe>>

\* compDieIndex = <result>
AfterCompDie_keep ==
  /\ pc = "ret_die"
  /\ compDieIndex' = IF compDieIndex = NoNum THEN ret ELSE compDieIndex
  /\ ret' = NoNum
  /\ pc' = "die_check"
  /\ UNCHANGED <<startupVars, out, exchangeVars, firstMove, userStarts, userDieInput,
                 userDieIndex, userRoll, compRoll, userFace, compFace, table,
                 countVars, probe>>
\* compDieIndex = await fairRandom(dice.length, ...), first choice and re-roll alike
AfterCompDie ==
  /\ pc = "ret_die"
  /\ compDieIndex' = ret
  /\ ret' = NoNum
  /\ pc' = "die_check"
  /\ UNCHANGED <<startupVars, out, exchangeVars, firstMove, userStarts, userDieInput,
                 userDieIndex, userRoll, compRoll, userFace, compFace, table,
                 countVars, probe>>

RerollDie_remap ==
  /\ pc = "die_check"
  /\ compDieIndex = userDieIndex
  /\ compDieIndex' = (compDieIndex + 1) % Len(dice)
  /\ UNCHANGED <<startupVars, pc, out, exchangeVars, ret, firstMove, userStarts,
                 userDieInput, userDieIndex, userRoll, compRoll, userFace, compFace,
                 table, countVars, probe>>
\* while (compDieIndex === userDieIndex) compDieIndex = await fairRandom(..., re-roll)
RerollDie ==
  /\ pc = "die_check"
  /\ compDieIndex = userDieIndex
  /\ Call(Len(dice), "Computer die choice (re-roll to avoid tie)", "ret_die", <<>>)
  /\ UNCHANGED <<startupVars, ret, firstMove, userStarts, roundVars, table, probe>>

RollUser_unguarded ==
  /\ pc = "die_check"
  /\ calls < MaxCalls
  /\ calls' = calls + 1
  /\ max' = DICE_FACES /\ label' = "Your roll" /\ site' = "ret_uroll"
  /\ out' = <<<<"chose", toString(compDieIndex)>>>>
  /\ pc' = "fr_commit"
  /\ UNCHANGED <<startupVars, key, compNum, hmac, input, userNum, result, keyDraws,
                 numDraws, ret, firstMove, userStarts, roundVars, table, probe>>
\* the loop ends: "Computer chose die"; const userRoll = await fairRandom(6, 'Your roll')
RollUser ==
  /\ pc = "die_check"
  /\ compDieIndex # userDieIndex
  /\ Call(DICE_FACES, "Your roll", "ret_uroll",
          <<<<"chose", toString(compDieIndex)>>>>)
  /\ UNCHANGED <<startupVars, ret, firstMove, userStarts, roundVars, table, probe>>

RollComputer_skip ==
  /\ pc = "ret_uroll"
  /\ userRoll' = ret
  /\ compRoll' = ret
  /\ ret' = NoNum
  /\ pc' = "faces"
  /\ UNCHANGED <<startupVars, out, exchangeVars, firstMove, userStarts, userDieInput,
                 userDieIndex, compDieIndex, userFace, compFace, table, countVars,
                 probe>>
\* userRoll = <result>; const compRoll = await fairRandom(6, 'Computer roll')
RollComputer ==
  /\ pc = "ret_uroll"
  /\ userRoll' = ret
  /\ ret' = NoNum
  /\ Call(DICE_FACES, "Computer roll", "ret_croll", <<>>)
  /\ UNCHANGED <<startupVars, firstMove, userStarts, userDieInput, userDieIndex,
                 compDieIndex, compRoll, userFace, compFace, table, probe>>

\* compRoll = <result>
AfterCompRoll ==
  /\ pc = "ret_croll"
  /\ compRoll' = ret
  /\ ret' = NoNum
  /\ pc' = "faces"
  /\ UNCHANGED <<startupVars, out, exchangeVars, firstMove, userStarts, userDieInput,
                 userDieIndex, compDieIndex, userRoll, userFace, compFace, table,
                 countVars, probe>>

\* userFace > compFace ? "You win!" : userFace < compFace ? "Computer wins!" : draw
Verdict(u, c) ==
  IF u > c THEN "You win!" ELSE IF u < c THEN "Computer wins!" ELSE "It's a draw!"

\* userFace = dice[userDieIndex][userRoll]; compFace = dice[compDieIndex][compRoll];
\* the faces and the verdict are printed
RoundResult ==
  /\ pc = "faces"
  /\ LET u == dice[userDieIndex + 1][userRoll + 1]
         c == dice[compDieIndex + 1][compRoll + 1]
     IN /\ userFace' = u
        /\ compFace' = c
        /\ out' = << <<"rolled", toString(u)>>, <<"computer-rolled", toString(c)>>,
                     <<"verdict", Verdict(u, c)>> >>
  /\ pc' = "round_end"
  /\ UNCHANGED <<startupVars, exchangeVars, ret, firstMove, userStarts, userDieInput,
                 userDieIndex, compDieIndex, userRoll, compRoll, table, countVars,
                 probe>>

\* continue: the round's locals are gone, the menu is shown again
RoundContinue ==
  /\ pc = "round_end"
  /\ userDieInput' = <<>>
  /\ userDieIndex' = NoNum /\ compDieIndex' = NoNum
  /\ userRoll' = NoNum /\ compRoll' = NoNum
  /\ userFace' = NoNum /\ compFace' = NoNum
  /\ out' = <<>>
  /\ pc' = "menu"
  /\ UNCHANGED <<startupVars, exchangeVars, ret, firstMove, userStarts, table,
                 countVars, probe>>

\* stdin ends while a question waits: the question is never answered, nothing
\* more is printed and the process ends with exit code 0; the locals of main
\* and of fairRandom end with it
InputEnds ==
  /\ pc \in {"fr_wait", "menu", "select"}
  /\ exitCode' = 0
  /\ pc' = "closed"
  /\ out' = <<>>
  /\ max' = 0 /\ label' = "" /\ site' = ""
  /\ key' = <<>> /\ compNum' = NoNum /\ hmac' = <<>>
  /\ input' = <<>> /\ userNum' = Undefined /\ result' = NoNum
  /\ ret' = NoNum
  /\ firstMove' = NoNum /\ userStarts' = FALSE
  /\ userDieInput' = <<>>
  /\ userDieIndex' = NoNum /\ compDieIndex' = NoNum
  /\ userRoll' = NoNum /\ compRoll' = NoNum
  /\ userFace' = NoNum /\ compFace' = NoNum
  /\ table' = <<>>
  /\ UNCHANGED <<args, dice, argIdx, countVars, probe>>

\* the steps of the game while its input lasts
GameStep ==
  \/ CheckArgs \/ ParseDie \/ MainStart
  \/ FR_Commit \/ FR_Disclose \/ FR_Ask \/ FR_Input \/ FR_Combine \/ FR_Reveal
  \/ FR_Return
  \/ AfterFirstMove \/ MenuExit \/ MenuHelp \/ MenuPlay \/ MenuUnknown
  \/ SelectInvalid \/ SelectExit \/ SelectDie \/ AfterCompDie \/ RerollDie
  \/ RollUser \/ RollComputer \/ AfterCompRoll \/ RoundResult \/ RoundContinue

Next == GameStep \/ InputEnds

Spec == Init /\ [][Next]_vars

\* ------------------------------------------------- Combine on its own
\* Combine applied to arguments drawn from 2..MaxMod; the game stands still.
InitCombine ==
  /\ args = <<>> /\ dice = <<>> /\ argIdx = 1 /\ exitCode = NoNum
  /\ pc = "pure" /\ out = <<>>
  /\ max = 0 /\ label = "" /\ site = ""
  /\ key = <<>> /\ compNum = NoNum /\ hmac = <<>>
  /\ input = <<>> /\ userNum = Undefined /\ result = NoNum
  /\ ret = NoNum
  /\ firstMove = NoNum /\ userStarts = FALSE
  /\ userDieInput = <<>>
  /\ userDieIndex = NoNum /\ compDieIndex = NoNum
  /\ userRoll = NoNum /\ compRoll = NoNum
  /\ userFace = NoNum /\ compFace = NoNum
  /\ table = <<>>
  /\ calls = 0 /\ keyDraws = 0 /\ numDraws = 0
  /\ \E m \in 2..MaxMod : \E c \in 0..(m - 1) : \E u \in 0..(m - 1) :
       probe = [fn |-> "Combine", max |-> m, secret |-> c, v |-> u, res |-> NoNum]

CombineApply ==
  /\ pc = "pure"
  /\ probe.fn = "Combine"
  /\ probe.res = NoNum
  /\ probe' = [probe EXCEPT !.res = Combine(probe.secret, probe.v, probe.max)]
  /\ UNCHANGED <<startupVars, pc, out, exchangeVars, ret, firstMove, userStarts,
                 roundVars, table, countVars>>

NextCombine == CombineApply

SpecCombine == InitCombine /\ [][NextCombine]_vars

\* the game at rest while a function is applied on its own
Idle ==
  /\ args = <<>> /\ dice = <<>> /\ argIdx = 1 /\ exitCode = NoNum
  /\ out = <<>>
  /\ key = <<>> /\ compNum = NoNum /\ hmac = <<>>
  /\ input = <<>> /\ userNum = Undefined /\ result = NoNum
  /\ ret = NoNum
  /\ firstMove = NoNum /\ userStarts = FALSE
  /\ userDieInput = <<>>
  /\ userDieIndex = NoNum /\ compDieIndex = NoNum
  /\ userRoll = NoNum /\ compRoll = NoNum
  /\ userFace = NoNum /\ compFace = NoNum
  /\ table = <<>>
  /\ keyDraws = 0 /\ numDraws = 0

mainVars == <<startupVars, pc, out, exchangeVars, ret, firstMove, userStarts,
              roundVars, table, countVars>>

\* ------------------------------------------- the dice functions on their own
\* Largest face value of the enumerated dice.
FaceMax == 2
\* dice written in the order of the README's example, and dice with large,
\* negative and repeated faces
SampleDice ==
  { <<2, 2, 4, 4, 9, 9>>, <<6, 8, 1, 1, 8, 6>>, <<7, 5, 3, 7, 5, 3>>,
    <<1, 1, 6, 6, 8, 8>>, <<3, 3, 5, 5, 7, 7>>, <<0 - 3, 0, 100, 4, 9, 9>>,
    <<2, 1, 0, 2, 1, 0>> }
\* every die with faces 0..FaceMax in non-decreasing order, and the samples
DiceUniverse ==
  { d \in [1..DICE_FACES -> 0..FaceMax] : \A i \in 1..(DICE_FACES - 1) : d[i] <= d[i + 1] }
    \cup SampleDice

InitDice ==
  /\ Idle
  /\ pc = "pure" /\ max = 0 /\ label = "" /\ site = "" /\ calls = 0
  /\ \E a \in DiceUniverse : \E b \in DiceUniverse :
       probe = [fn |-> "dice", a |-> a, b |-> b, win |-> <<>>, pct |-> <<>>,
                cmp |-> <<>>]

\* the inner loops and the percent of showProbabilities for (a, b) and (b, a)
ApplyWinCount ==
  /\ pc = "pure"
  /\ probe.fn = "dice"
  /\ probe.win = <<>>
  /\ probe' = [probe EXCEPT
                 !.win = <<WinCount(probe.a, probe.b), WinCount(probe.b, probe.a)>>,
                 !.pct = <<PercentString(WinCount(probe.a, probe.b)),
                           PercentString(WinCount(probe.b, probe.a))>>]
  /\ UNCHANGED mainVars

\* compareDice for (a, b), (b, a) and (a, a)
ApplyCompareDice ==
  /\ pc = "pure"
  /\ probe.fn = "dice"
  /\ probe.win # <<>>
  /\ probe.cmp = <<>>
  /\ probe' = [probe EXCEPT
                 !.cmp = <<compareDice(probe.a, probe.b), compareDice(probe.b, probe.a),
                           compareDice(probe.a, probe.a)>>]
  /\ UNCHANGED mainVars

NextDice == ApplyWinCount \/ ApplyCompareDice

SpecDice == InitDice /\ [][NextDice]_vars

\* ------------------------------------------- secureRandomInt on its own
InitSampler ==
  /\ Idle
  /\ pc = "pure" /\ max = 0 /\ label = "" /\ site = "" /\ calls = 0
  /\ \E m \in 2..DrawMax :
       probe = [fn |-> "secureRandomInt", max |-> m, num |-> NoNum, res |-> NoNum]

\* one turn of while (true): num is drawn; it is returned modulo max if the
\* test accepts it, else the loop turns again
SampleDraw ==
  /\ pc = "pure"
  /\ probe.fn = "secureRandomInt"
  /\ probe.res = NoNum
  /\ \E num \in 0..DrawMax :
       probe' = [probe EXCEPT
                  !.num = num,
                  !.res = IF num \in AcceptedDraws(probe.max)
                          THEN num % probe.max ELSE NoNum]
  /\ UNCHANGED mainVars

NextSampler == SampleDraw

SpecSampler == InitSampler /\ [][NextSampler]_vars

\* ------------------------------------------- fairRandom called on its own
InitFairRandom ==
  /\ Idle
  /\ pc = "fr_commit" /\ label = "direct call" /\ site = "returned" /\ calls = 1
  /\ max \in 0..MaxMod
  /\ probe = [fn |-> "fairRandom", max |-> max]

NextFairRandom ==
  \/ FR_Commit \/ FR_Disclose \/ FR_Ask \/ FR_Input \/ FR_Combine \/ FR_Reveal
  \/ FR_Return \/ InputEnds

SpecFairRandom == InitFairRandom /\ [][NextFairRandom]_vars

\* ------------------------------------------- the game without a cut
\* the command line of the README's example: three dice, so the exchanges of
\* the computer's die choice run with max = 3
LiveArgLists == { <<ClassicA, ClassicB, ClassicC>> }

InitLive ==
  /\ args \in LiveArgLists
  /\ dice = <<>> /\ argIdx = 1 /\ exitCode = NoNum
  /\ pc = "start"
  /\ out = <<>>
  /\ max = 0 /\ label = "" /\ site = ""
  /\ key = <<>> /\ compNum = NoNum /\ hmac = <<>>
  /\ input = <<>> /\ userNum = Undefined /\ result = NoNum
  /\ ret = NoNum
  /\ firstMove = NoNum /\ userStarts = FALSE
  /\ userDieInput = <<>>
  /\ userDieIndex = NoNum /\ compDieIndex = NoNum
  /\ userRoll = NoNum /\ compRoll = NoNum
  /\ userFace = NoNum /\ compFace = NoNum
  /\ table = <<>>
  /\ calls = 0 /\ keyDraws = 0 /\ numDraws = 0
  /\ probe = [fn |-> "live"]

\* the prompt loop of fairRandom is left: the user gave a line it accepts
ValidInput ==
  /\ pc = "fr_wait"
  /\ pc' = "fr_combine"

\* in a computer-die exchange the secret and the accepted number do not add up
\* to the user's die
GoodDraw ==
  /\ pc = "fr_wait"
  /\ site = "ret_die"
  /\ \E v \in 0..(max - 1) :
       /\ (compNum + v) % max # userDieIndex
       /\ userNum' = Num(v)
  /\ pc' = "fr_combine"

\* the steps of a round that wait for nobody
RoundStep ==
  \/ FR_Commit \/ FR_Disclose \/ FR_Ask \/ FR_Combine \/ FR_Reveal \/ FR_Return
  \/ AfterCompDie \/ RerollDie \/ RollUser \/ RollComputer \/ AfterCompRoll
  \/ RoundResult \/ RoundContinue

SpecLive ==
  /\ InitLive /\ [][GameStep]_vars
  /\ WF_vars(RoundStep) /\ SF_pc(ValidInput) /\ SF_<<pc, userNum>>(GoodDraw)

\* ------------------------------------------------------------ claims
LinesOf(kind) == {i \in 1..Len(out) : out[i][1] = kind}
Committed == {"fr_disclose", "fr_ask", "fr_wait", "fr_combine", "fr_reveal", "fr_return"}
Disclosed == {"fr_ask", "fr_wait", "fr_combine", "fr_reveal", "fr_return"}
Accepted == {"fr_combine", "fr_reveal", "fr_return"}

\* C1: within an exchange the secret and the key are on the console only once
\* a valid counterparty value is recorded, and every prompt for that value
\* comes after the digest line, however many invalid lines were typed.
C1_RevealAfterInput ==
  /\ (LinesOf("secret") \cup LinesOf("key")) # {}
       => ValidNumber(userNum, max)
  /\ \A i \in LinesOf("ask") : \E j \in LinesOf("hmac") : j < i
  /\ \A i \in LinesOf("secret") \cup LinesOf("key") :
       \E j \in LinesOf("ask") : j < i
  /\ pc \in {"fr_ask", "fr_wait"} => ~ValidNumber(userNum, max)

C1_Witness ==
  /\ pc = "fr_return"
  /\ LinesOf("secret") # {} /\ LinesOf("key") # {}
  /\ Cardinality(LinesOf("invalid")) = MaxInvalid

\* C2: the value a fairRandom call returns is (secret + counterparty value)
\* mod max, the secret being the number under the digest, and it is in [0, max).
C2_ReturnsSumModMax ==
  [][pc = "fr_return" =>
       /\ ret' = (DigitsValue(hmac[3]) + userNum.v) % max
       /\ ret' >= 0 /\ ret' < max
       /\ ret' = result]_vars

C2_Witness ==
  /\ pc = "fr_return"
  /\ max = DICE_FACES
  /\ compNum + userNum.v > max
  /\ result = compNum + userNum.v - max

\* C3: for a modulus m >= 2 and a fixed counterparty value v, secret |->
\* Combine(secret, v, m) is one-to-one from [0, m) onto [0, m), and so is
\* v |-> Combine(secret, v, m) for a fixed secret.
C3_CombineBijective ==
  probe.fn = "Combine" =>
    LET m == probe.max
        R == 0..(m - 1)
    IN /\ {Combine(c, probe.v, m) : c \in R} = R
       /\ \A c1, c2 \in R :
            Combine(c1, probe.v, m) = Combine(c2, probe.v, m) => c1 = c2
       /\ {Combine(probe.secret, u, m) : u \in R} = R
       /\ \A u1, u2 \in R :
            Combine(probe.secret, u1, m) = Combine(probe.secret, u2, m) => u1 = u2
       /\ probe.res # NoNum =>
            /\ probe.res \in R
            /\ \A c \in R : Combine(c, probe.v, m) = probe.res => c = probe.secret

C3_Witness ==
  /\ probe.fn = "Combine"
  /\ probe.max = MaxMod
  /\ probe.secret + probe.v > probe.max
  /\ probe.res = 1

C4_HexVal(c) == (CHOOSE i \in 1..16 : HexDigits[i] = c) - 1
C4_FromHex(h) ==
  [i \in 1..(Len(h) \div 2) |-> 16 * C4_HexVal(h[2 * i - 1]) + C4_HexVal(h[2 * i])]

\* C4: the HMAC recomputed from the revealed key and the revealed decimal
\* number is the one digest the exchange disclosed, and the revealed number is
\* the one the result was combined from.
C4_RevealMatchesDigest ==
  \A i \in LinesOf("secret") : \A j \in LinesOf("key") :
    /\ Cardinality(LinesOf("hmac")) = 1
    /\ Cardinality(LinesOf("secret")) = 1
    /\ Cardinality(LinesOf("key")) = 1
    /\ \A h \in LinesOf("hmac") :
         /\ h < i /\ h < j
         /\ hmacSha3(C4_FromHex(out[j][2]), out[i][2]) = out[h][3]
    /\ result = (DigitsValue(out[i][2]) + userNum.v) % max

C4_Witness ==
  /\ pc = "fr_return"
  /\ LinesOf("secret") # {} /\ LinesOf("key") # {}
  /\ key = <<255>>
  /\ compNum # result

C5_IsInteger(s) ==
  LET t == Trim(s)
      u == IF t # <<>> /\ Head(t) \in {"+", "-"} THEN Tail(t) ELSE t
  IN u # <<>> /\ \A i \in 1..Len(u) : IsDigit(u[i])

\* C5: a line that is not an integer, or is an integer outside [0, max), is
\* never the line the exchange goes on with.
C5_OnlyIntegersAccepted ==
  pc \in Accepted =>
    /\ C5_IsInteger(input)
    /\ userNum.v >= 0 /\ userNum.v < max

\* C6: after a rejected line the exchange still has the commitment it began
\* with: the one digest on the console is the digest of the current key and
\* secret, nothing was drawn again and nothing is revealed.
C6_RejectKeepsCommitment ==
  (pc \in {"fr_ask", "fr_wait"} /\ LinesOf("invalid") # {}) =>
    /\ Cardinality(LinesOf("hmac")) = 1
    /\ \A h \in LinesOf("hmac") :
         /\ out[h][3] = hmacSha3(key, toString(compNum))
         /\ out[h][3] = hmac
         /\ \A i \in LinesOf("invalid") : h < i
    /\ keyDraws = calls /\ numDraws = calls
    /\ LinesOf("secret") \cup LinesOf("key") \cup LinesOf("entered")
         \cup LinesOf("result") = {}

C6_Witness ==
  /\ pc = "fr_wait"
  /\ Cardinality(LinesOf("invalid")) = MaxInvalid
  /\ label = "Computer die choice (re-roll to avoid tie)"

\* the draws match the calls, and the exchange in progress has shown exactly
\* the digest of its own key and secret and has prompted before going on
C7_OwnCommitment ==
  /\ pc \in Committed => (keyDraws = calls /\ numDraws = calls)
  /\ pc = "fr_commit" => (keyDraws = calls - 1 /\ numDraws = calls - 1)
  /\ pc \in Disclosed =>
       /\ Cardinality(LinesOf("hmac")) = 1
       /\ \A h \in LinesOf("hmac") : out[h] = <<"hmac", label, hmacSha3(key, toString(compNum))>>
  /\ pc \in Accepted => \E i \in LinesOf("ask") : \A h \in LinesOf("hmac") : h < i

\* a collision leads to a new fairRandom call and leaves the index alone
C7_NoRemap ==
  /\ (pc = "die_check" /\ compDieIndex = userDieIndex) =>
       /\ pc' = "fr_commit"
       /\ calls' = calls + 1
       /\ max' = Len(dice)
       /\ compDieIndex' = compDieIndex
  /\ pc = "ret_die" => compDieIndex' = ret

\* C7: every exchange, a re-run after a collision included, draws its own key
\* and secret, shows one digest of its own and prompts before it goes on; a
\* computer die equal to the user's is answered by a new exchange, and the
\* index kept is the exchange's result, never another index.
C7_FreshExchange == [](C7_OwnCommitment) /\ [][C7_NoRemap]_vars

C7_Witness ==
  /\ pc = "fr_return"
  /\ label = "Computer die choice (re-roll to avoid tie)"
  /\ calls = 3 /\ keyDraws = 3

RECURSIVE C8_Commas(_)
C8_Commas(s) ==
  IF s = <<>> THEN 0 ELSE (IF Head(s) = "," THEN 1 ELSE 0) + C8_Commas(Tail(s))
C8_WrongShape(k) == C8_Commas(args[k]) + 1 # 6
C8_BadConfiguration == Len(args) < 3 \/ \E k \in 1..Len(args) : C8_WrongShape(k)

\* C8: with fewer than 3 dice, or a die that has not exactly 6 comma-separated
\* values, the program gets no further than validation: it ends with code 1
\* and an error line, and no exchange, commitment or digest ever exists.
C8_BadShapeStopsAtStartup ==
  C8_BadConfiguration =>
    /\ pc \in {"start", "parse", "exited"}
    /\ pc = "parse" => (Len(args) >= 3 /\ \A k \in 1..argIdx - 1 : ~C8_WrongShape(k))
    /\ pc = "parse" => argIdx <= Len(args)
    /\ pc = "exited" => (exitCode = 1 /\ LinesOf("error") # {})
    /\ calls = 0 /\ keyDraws = 0 /\ numDraws = 0
    /\ hmac = <<>> /\ LinesOf("hmac") = {}

C8_Witness ==
  /\ pc = "exited"
  /\ exitCode = 1
  /\ Len(args) >= 3
  /\ C8_WrongShape(2)
  /\ Len(dice) = 1

C9_Tokens(k) == split(args[k])
C9_NonInteger(k) == \E i \in 1..Len(C9_Tokens(k)) : ~C5_IsInteger(C9_Tokens(k)[i])

\* C9: a face token that is not an integer makes validation fail, and no die
\* with such a token is stored.
C9_NonIntegerFaceRejected ==
  /\ \A k \in 1..Len(dice) : ~C9_NonInteger(k)
  /\ ((\E k \in 1..Len(args) : C9_NonInteger(k)) /\ pc \notin {"start", "parse"})
       => (pc = "exited" /\ exitCode = 1)

C10_Wins(a, b) ==
  Cardinality({pq \in (1..6) \X (1..6) : a[pq[1]] > b[pq[2]]})
C10_Tenths(cell) ==
  LET ds == DigitPrefix(cell) IN 10 * DigitsValue(ds) + DigitVal(cell[Len(ds) + 2])
C10_WellFormed(cell) ==
  LET ds == DigitPrefix(cell)
  IN /\ ds # <<>>
     /\ Len(cell) = Len(ds) + 3
     /\ cell[Len(ds) + 1] = "."
     /\ IsDigit(cell[Len(ds) + 2])
     /\ cell[Len(cell)] = "%"
C10_Classic == <<<<2, 2, 4, 4, 9, 9>>, <<1, 1, 6, 6, 8, 8>>, <<3, 3, 5, 5, 7, 7>>>>

\* C10: each off-diagonal cell of the help table is the percentage, to one
\* decimal, of the 36 face pairs in which the row die shows more than the
\* column die; with the classic dice the count is above 18 for die 0 against
\* die 1, die 1 against die 2 and die 2 against die 0.
C10_HelpTableCounts ==
  table # <<>> =>
    /\ Len(table) = Len(dice)
    /\ \A i, j \in 1..Len(dice) :
         LET cell == table[i][j + 1]
             w == C10_Wins(dice[i], dice[j])
         IN IF i = j THEN cell = <<"-">>
            ELSE /\ C10_WellFormed(cell)
                 /\ 2 * (36 * C10_Tenths(cell) - 1000 * w) <= 36
                 /\ 2 * (1000 * w - 36 * C10_Tenths(cell)) < 36
    /\ dice = C10_Classic =>
         \A e \in {<<1, 2>>, <<2, 3>>, <<3, 1>>} :
           /\ C10_Wins(dice[e[1]], dice[e[2]]) > 18
           /\ C10_Tenths(table[e[1]][e[2] + 1]) > 500

C10_Witness ==
  /\ table # <<>>
  /\ dice = C10_Classic
  /\ table[1][3] = <<"5", "5", ".", "6", "%">>
  /\ table[3][2] = <<"5", "5", ".", "6", "%">>

\* C17: a round is played only with a selection that is an integer in
\* [0, number of dice); every other line leads back to the menu with no
\* exchange run.
C17_OnlyDieNumbersStartRound ==
  /\ userDieIndex # NoNum =>
       /\ C5_IsInteger(userDieInput)
       /\ userDieIndex >= 0 /\ userDieIndex < Len(dice)
  /\ pc = "select" => (userDieIndex = NoNum /\ LinesOf("hmac") = {})

DieLabels == {"Computer die choice", "Computer die choice (re-roll to avoid tie)"}
RollLabels == {"Your roll", "Computer roll"}
DieRange == 0..(Len(dice) - 1)
FaceRange == 0..(DICE_FACES - 1)

\* C15: from the start of the roll exchanges to the end of the round the
\* computer's die is another die than the user's, and while the two indices are
\* equal the program cannot go on to the rolls.
C15_DistinctDiceAtRolls ==
  /\ (label \in RollLabels \/ pc \in {"ret_uroll", "ret_croll", "faces", "round_end"}) =>
       /\ userDieIndex \in DieRange
       /\ compDieIndex \in DieRange
       /\ compDieIndex # userDieIndex
  /\ (pc = "die_check" /\ compDieIndex = userDieIndex) => ~ENABLED RollUser

C15_Witness ==
  /\ pc = "fr_commit"
  /\ label = "Your roll"
  /\ calls = 4
  /\ compDieIndex # userDieIndex

\* where each exchange stands in the run
C16_Places ==
  /\ pc = "menu" => (calls >= 1 /\ firstMove \in {0, 1})
  /\ pc \in {"start", "parse"} => calls = 0
  /\ label = "First move" =>
       (calls = 1 /\ max = 2 /\ site = "ret_first" /\ firstMove = NoNum)
  /\ label \in DieLabels =>
       /\ max = Len(dice) /\ site = "ret_die"
       /\ userDieIndex # NoNum /\ userRoll = NoNum /\ compRoll = NoNum
  /\ label = "Computer die choice" => compDieIndex = NoNum
  /\ label = "Computer die choice (re-roll to avoid tie)" => compDieIndex = userDieIndex
  /\ label = "Your roll" =>
       /\ max = DICE_FACES /\ site = "ret_uroll"
       /\ compDieIndex # NoNum /\ userRoll = NoNum /\ compRoll = NoNum
  /\ label = "Computer roll" =>
       /\ max = DICE_FACES /\ site = "ret_croll"
       /\ userRoll # NoNum /\ compRoll = NoNum
  /\ pc \in {"faces", "round_end"} => (userRoll # NoNum /\ compRoll # NoNum)

\* the order of the calls: one starts only where no other is in progress, and
\* which one starts is fixed by the place it starts from
C16_Order ==
  /\ calls' # calls =>
       /\ calls' = calls + 1
       /\ pc' = "fr_commit"
       /\ pc \in {"parse", "select", "die_check", "ret_uroll"}
       /\ pc = "parse" => label' = "First move"
       /\ pc = "select" => label' = "Computer die choice"
       /\ pc = "die_check" =>
            label' = IF compDieIndex = userDieIndex
                     THEN "Computer die choice (re-roll to avoid tie)"
                     ELSE "Your roll"
       /\ pc = "ret_uroll" => label' = "Computer roll"
  /\ pc' = "fr_commit" => calls' = calls + 1
  /\ pc = "fr_return" => pc' = site
  /\ pc = "ret_first" => pc' = "menu"
  /\ pc = "ret_die" => pc' = "die_check"
  /\ pc = "ret_uroll" => (pc' = "fr_commit" /\ label' = "Computer roll")
  /\ pc = "ret_croll" => pc' = "faces"
  /\ pc = "faces" => pc' = "round_end"
  /\ pc = "round_end" => (pc' = "menu" /\ calls' = calls)

\* C16: one first-move exchange with max 2 is over before the first menu; a
\* round runs computer-die exchanges with max = number of dice, then one
\* user-roll and one computer-roll exchange with max 6, in this order; an
\* exchange starts only after the one before it has returned.
C16_ExchangeOrder == [](C16_Places) /\ [][C16_Order]_vars

C16_Witness ==
  /\ pc = "round_end"
  /\ calls = 4
  /\ userRoll \in FaceRange /\ compRoll \in FaceRange

\* C18: the indices used in a round are inside the dice and the faces; the two
\* faces looked up are the faces at these indices and the verdict printed is
\* their comparison.
C18_LookupsDefined ==
  /\ userDieIndex # NoNum => userDieIndex \in DieRange
  /\ compDieIndex # NoNum => compDieIndex \in DieRange
  /\ userRoll # NoNum => userRoll \in FaceRange
  /\ compRoll # NoNum => compRoll \in FaceRange
  /\ pc = "faces" =>
       /\ userDieIndex \in DieRange /\ compDieIndex \in DieRange
       /\ userRoll \in FaceRange /\ compRoll \in FaceRange
       /\ userRoll + 1 \in DOMAIN dice[userDieIndex + 1]
       /\ compRoll + 1 \in DOMAIN dice[compDieIndex + 1]
       /\ dice[userDieIndex + 1][userRoll + 1] \in Int
       /\ dice[compDieIndex + 1][compRoll + 1] \in Int
  /\ pc = "round_end" =>
       /\ userFace = dice[userDieIndex + 1][userRoll + 1]
       /\ compFace = dice[compDieIndex + 1][compRoll + 1]
       /\ \E i \in LinesOf("verdict") :
            /\ (userFace > compFace) = (out[i][2] = "You win!")
            /\ (userFace < compFace) = (out[i][2] = "Computer wins!")
            /\ (userFace = compFace) = (out[i][2] = "It's a draw!")

C18_Witness ==
  /\ pc = "round_end"
  /\ userFace < compFace
  /\ \E i \in LinesOf("verdict") : out[i][2] = "Computer wins!"

\* C19: whatever the first move gave, the user's die is chosen before a
\* computer-die exchange exists, and at every place of main the steps that can
\* come next are the same for userStarts true and false.
C19_FirstMoveUnused ==
  /\ label \in DieLabels => (userDieIndex \in DieRange /\ firstMove \in {0, 1})
  /\ pc \in {"menu", "select", "die_check", "ret_uroll"} => userStarts = (firstMove = 0)
  /\ pc = "menu" =>
       (ENABLED MenuExit /\ ENABLED MenuHelp /\ ENABLED MenuPlay /\ ENABLED MenuUnknown)
  /\ pc = "select" =>
       /\ ENABLED SelectInvalid
       /\ ENABLED SelectExit
       /\ (ENABLED SelectDie) = (calls < MaxCalls)
  /\ pc = "die_check" =>
       /\ (ENABLED RerollDie) = (calls < MaxCalls /\ compDieIndex = userDieIndex)
       /\ (ENABLED RollUser) = (calls < MaxCalls /\ compDieIndex # userDieIndex)
  /\ pc = "ret_uroll" => (ENABLED RollComputer) = (calls < MaxCalls)

C19_Witness ==
  /\ pc = "fr_wait"
  /\ label = "Computer die choice"
  /\ firstMove = 1 /\ ~userStarts
  /\ userDieIndex = 0

C11_Ties(a, b) ==
  Cardinality({pq \in (1..6) \X (1..6) : a[pq[1]] = b[pq[2]]})

\* C11: for dice A and B the pairs A wins, the pairs B wins and the tied
\* pairs are 36 together; the two percentages shown add up to 100 exactly
\* when no face of A equals a face of B, and to less otherwise.
C11_WinsLossesTies ==
  (probe.fn = "dice" /\ probe.win # <<>>) =>
    LET ties == C11_Ties(probe.a, probe.b)
        sum == C10_Tenths(probe.pct[1]) + C10_Tenths(probe.pct[2])
    IN /\ probe.win[1] = C10_Wins(probe.a, probe.b)
       /\ probe.win[2] = C10_Wins(probe.b, probe.a)
       /\ probe.win[1] + probe.win[2] + ties = 36
       /\ (sum = 1000) = (ties = 0)
       /\ (\E i, j \in 1..6 : probe.a[i] = probe.b[j]) = (sum < 1000)

C11_Witness ==
  /\ probe.fn = "dice" /\ probe.win # <<>>
  /\ probe.a = <<6, 8, 1, 1, 8, 6>>
  /\ C11_Ties(probe.a, probe.b) = 4
  /\ probe.win[1] > 0 /\ probe.win[2] > 0
  /\ C10_Tenths(probe.pct[1]) + C10_Tenths(probe.pct[2]) < 1000

C12_Sign(a, b) ==
  LET w == C10_Wins(a, b)
      l == C10_Wins(b, a)
  IN IF w > l THEN 1 ELSE IF w < l THEN 0 - 1 ELSE 0

\* C12: compareDice(A, B) is 1 exactly when more pairs have a > b than a < b,
\* -1 exactly when fewer, else 0; so compareDice(A, B) = -compareDice(B, A),
\* compareDice(A, A) = 0, and the classic dice beat each other in a cycle.
C12_CompareDiceSign ==
  (probe.fn = "dice" /\ probe.cmp # <<>>) =>
    /\ probe.cmp[1] = C12_Sign(probe.a, probe.b)
    /\ (probe.cmp[1] = 1) = (C10_Wins(probe.a, probe.b) > C10_Wins(probe.b, probe.a))
    /\ (probe.cmp[1] = 0 - 1) = (C10_Wins(probe.a, probe.b) < C10_Wins(probe.b, probe.a))
    /\ probe.cmp[1] = 0 - probe.cmp[2]
    /\ probe.cmp[3] = 0
    /\ \A e \in {<<1, 2>>, <<2, 3>>, <<3, 1>>} :
         (probe.a = C10_Classic[e[1]] /\ probe.b = C10_Classic[e[2]]) =>
           (probe.cmp[1] = 1 /\ probe.cmp[2] = 0 - 1)

C12_Witness ==
  /\ probe.fn = "dice" /\ probe.cmp = <<1, 0 - 1, 0>>
  /\ probe.a = C10_Classic[3]
  /\ probe.b = C10_Classic[1]

C13_Share(m, r) == Cardinality({n \in AcceptedDraws(m) : n % m = r})

\* C13: for a draw of DrawBits bits and max in [2, 2^DrawBits - 1] the accepted
\* draws hold equally many values of every residue, a returned value is an
\* accepted draw modulo max and lies in [0, max), and a rejected draw returns
\* nothing and lets the loop draw again.
C13_NoModuloBias ==
  probe.fn = "secureRandomInt" =>
    LET m == probe.max
    IN /\ \A r \in 0..(m - 1) : C13_Share(m, r) = C13_Share(m, 0)
       /\ C13_Share(m, 0) >= 1
       /\ probe.res # NoNum =>
            /\ probe.res \in 0..(m - 1)
            /\ probe.res = probe.num % m
            /\ probe.res \in secureRandomInt(m)
            /\ probe.num < m * C13_Share(m, 0)
       /\ (probe.num # NoNum /\ probe.num >= m * C13_Share(m, 0)) =>
            (probe.res = NoNum /\ ENABLED SampleDraw)

C13_Witness ==
  /\ probe.fn = "secureRandomInt"
  /\ probe.max = 3
  /\ probe.num = DrawMax
  /\ probe.res = NoNum

\* C14: a call with max 0 or 1 produces no commitment and shows no digest.
C14_SmallMaxRejected ==
  (probe.fn = "fairRandom" /\ probe.max < 2) =>
    /\ keyDraws = 0 /\ numDraws = 0
    /\ key = <<>> /\ hmac = <<>>
    /\ LinesOf("hmac") = {}
    /\ ret = NoNum

C20_InDieChoice == site = "ret_die" \/ pc \in {"ret_die", "die_check"}
C20_InRolls == pc = "fr_commit" /\ label = "Your roll" /\ compDieIndex # userDieIndex

\* C20: with three dice or more, if the user eventually gives a valid number
\* in each exchange and the secret and the number of the computer-die
\* exchanges do not forever add up to the user's die, a round that has begun
\* the computer's die choice reaches the roll exchanges, and from the roll
\* exchanges it returns to the menu.
C20_RerollLoopEnds ==
  /\ (C20_InDieChoice /\ Len(dice) >= MIN_DICE) ~> C20_InRolls
  /\ C20_InRolls ~> (pc = "menu" /\ userDieIndex = NoNum)

C20_Witness ==
  /\ Len(dice) >= MIN_DICE
  /\ label = "Computer die choice (re-roll to avoid tie)"
  /\ pc = "fr_reveal"
  /\ compDieIndex = userDieIndex
  /\ result # userDieIndex

====
